---- MODULE Spec2Model ----
(***************************************************************************)
(* Model of src/pick_node.rs: the position-to-node resolver.               *)
(*                                                                         *)
(* A query (pick_node, or pick_node_at_loc which first translates a        *)
(* (file, line, column) request) walks the whole crate once.  The walker   *)
(* PickVisitor recurses into a node's children before it tests the node,   *)
(* and keeps one result slot, node_info.  The model steps through the      *)
(* walk one visitor callback at a time; the parameter loop of visit_fn is  *)
(* stepped one iteration at a time.                                        *)
(*                                                                         *)
(* Span::contains, Span::between, Span::to, FileMap::line_bounds and the   *)
(* walk_* functions belong to libsyntax; they are modelled here as         *)
(* libsyntax defines them for the Span { lo, hi, ctxt } struct this file   *)
(* constructs on line 212.                                                 *)
(***************************************************************************)
EXTENDS Integers, Sequences, FiniteSets, TLC

VARIABLES krate, pc, kind, target, node_info, todo, argi, req, outcome,
          traversals, step, incl

vars == <<krate, pc, kind, target, node_info, todo, argi, req, outcome,
          traversals, step, incl>>

(* ------------------------------------------------------------------ *)
(* Bounds                                                               *)
(* ------------------------------------------------------------------ *)

\* Largest byte offset a span of the crate may start or end at.
MaxPos == 4

\* Largest column a (file, line, column) request may name.
MaxCol == 2

(* ------------------------------------------------------------------ *)
(* Spans                                                                *)
(* ------------------------------------------------------------------ *)

\* SyntaxContext::empty() and one context made by a macro expansion.
EmptyCtxt == "empty"

MacroCtxt == "macro"

Sp(lo, hi) == [lo |-> lo, hi |-> hi, ctxt |-> EmptyCtxt]

SpC(lo, hi, c) == [lo |-> lo, hi |-> hi, ctxt |-> c]

\* Every non-empty span over the offsets 0 .. MaxPos, in the empty context.
Spans == {s \in [lo : 0 .. MaxPos, hi : 0 .. MaxPos, ctxt : {EmptyCtxt}] : s.lo < s.hi}

\* Span::contains(self, other): self.lo <= other.lo && other.hi <= self.hi.
contains(self, other) == self.lo <= other.lo /\ other.hi <= self.hi

\* Span::between(self, end): from the end of self to the start of end.
between(self, end) == [lo |-> self.hi, hi |-> end.lo, ctxt |-> IF end.ctxt = EmptyCtxt THEN end.ctxt ELSE self.ctxt]

Min(a, b) == IF a <= b THEN a ELSE b

Max(a, b) == IF a >= b THEN a ELSE b

\* Span::to(self, end): the span enclosing both.
to(self, end) == [lo |-> Min(self.lo, end.lo), hi |-> Max(self.hi, end.hi), ctxt |-> IF self.ctxt = EmptyCtxt THEN end.ctxt ELSE self.ctxt]

(* ------------------------------------------------------------------ *)
(* NodeKind                                                             *)
(* ------------------------------------------------------------------ *)

NodeKinds == {"Any", "ItemLike", "Item", "TraitItem", "ImplItem", "ForeignItem", "Stmt", "Expr", "Pat", "Ty", "Arg"}

ItemLikeKinds == {"Item", "TraitItem", "ImplItem", "ForeignItem"}

\* A mutant of includes: the arm of ItemLike forgets ForeignItem.
includes_no_foreign(self, other) ==
    CASE self = "Any" -> TRUE
      [] self = "ItemLike" -> other \in {"Item", "TraitItem", "ImplItem"}
      [] OTHER -> self = other

\* NodeKind::includes(self, other).
includes(self, other) ==
    CASE self = "Any" -> TRUE
      [] self = "ItemLike" -> other \in {"Item", "TraitItem", "ImplItem", "ForeignItem"}
      [] OTHER -> self = other

(* ------------------------------------------------------------------ *)
(* The syntax tree                                                      *)
(* ------------------------------------------------------------------ *)

\* CRATE_NODE_ID of libsyntax: the identity reserved for the crate root.
CRATE_NODE_ID == 0

\* A node the visitor has a callback for.  cat is the callback's category
\* ("Fn" for visit_fn, which is no category of its own); kids are the nodes
\* walk_* recurses into, in order; inner holds a module's inner span;
\* args are a function's parameters, each naming its pattern and type node.
Node(cat, id, span, kids) == [cat |-> cat, id |-> id, span |-> span, kids |-> kids, inner |-> <<>>, args |-> <<>>]

\* An Item whose node is ItemKind::Mod(m): m.inner is the module's body.
ModItem(id, span, inner, kids) == [cat |-> "Item", id |-> id, span |-> span, kids |-> kids, inner |-> <<inner>>, args |-> <<>>]

\* What visit_fn receives: the declaration (its inputs) and the body.
FnNode(id, span, kids, args) == [cat |-> "Fn", id |-> id, span |-> span, kids |-> kids, inner |-> <<>>, args |-> args]

Arg(id, pat, ty) == [id |-> id, pat |-> pat, ty |-> ty]

\* mod a { mod b { .. }  fn x(p: t) {} }: module a (declaration 0..1, body
\* i1) holds module b (declaration 1..2, body i2) and a function x.
ModTree(i1, i2) ==
    [nodes |-> << ModItem(1, Sp(0, 1), i1, <<2, 3>>),
                  ModItem(2, Sp(1, 2), i2, <<>>),
                  Node("Item", 3, Sp(2, 4), <<4>>),
                  FnNode(3, Sp(2, 4), <<5, 6>>, <<Arg(7, 5, 6)>>),
                  Node("Pat", 5, Sp(2, 3), <<>>),
                  Node("Ty", 6, Sp(3, 4), <<>>) >>,
     items |-> <<1>>,
     span  |-> Sp(0, MaxPos),
     inner |-> Sp(0, MaxPos)]

\* fn f(p1: t1, p2: t2) {}: an item with a function of two parameters.
FnTree(p1, t1) ==
    [nodes |-> << Node("Item", 1, Sp(0, MaxPos), <<2>>),
                  FnNode(1, Sp(0, MaxPos), <<3, 4, 5, 6>>, <<Arg(7, 3, 4), Arg(8, 5, 6)>>),
                  Node("Pat", 3, p1, <<>>),
                  Node("Ty", 4, t1, <<>>),
                  Node("Pat", 5, Sp(1, 2), <<>>),
                  Node("Ty", 6, Sp(2, 3), <<>>) >>,
     items |-> <<1>>,
     span  |-> Sp(0, MaxPos),
     inner |-> Sp(0, MaxPos)]

\* trait T { fn m() { e1(e2) } }  impl I { .. }  extern { .. }: the item-like
\* categories, and a statement holding an expression that holds another.
MiscTree(e2) ==
    [nodes |-> << Node("Item", 1, Sp(1, 2), <<2>>),
                  Node("TraitItem", 2, Sp(1, 2), <<3>>),
                  FnNode(2, Sp(1, 2), <<4>>, <<>>),
                  Node("Stmt", 4, Sp(1, 2), <<5>>),
                  Node("Expr", 5, Sp(1, 2), <<6>>),
                  Node("Expr", 6, e2, <<>>),
                  Node("Item", 7, Sp(2, 3), <<8>>),
                  Node("ImplItem", 8, Sp(2, 3), <<>>),
                  Node("Item", 9, Sp(3, 4), <<10>>),
                  Node("ForeignItem", 10, Sp(3, 4), <<>>) >>,
     items |-> <<1, 7, 9>>,
     span  |-> Sp(0, MaxPos),
     inner |-> Sp(1, MaxPos)]

\* Two spans with a gap (possibly empty) between them, in either order.
Apart(a, b) == a.hi <= b.lo \/ b.hi <= a.lo

\* The crates a query is made on.  The type of the first parameter may come
\* from a macro expansion where it does not overlap the pattern.
Crates ==
    {ModTree(i1, i2) : i1 \in Spans, i2 \in Spans}
    \cup {FnTree(p1, t1) : p1 \in Spans, t1 \in Spans}
    \cup {FnTree(pt[1], SpC(pt[2].lo, pt[2].hi, MacroCtxt)) : pt \in {q \in Spans \X Spans : Apart(q[1], q[2])}}
    \cup {MiscTree(e2) : e2 \in Spans}

RECURSIVE visit_preorder(_, _), walk_preorder(_, _)
\* A mutant of visit: the node is tested before its children are walked.
visit_preorder(t, n) == <<n>> \o walk_preorder(t, t.nodes[n].kids)

walk_preorder(t, ks) == IF ks = <<>> THEN <<>> ELSE visit_preorder(t, Head(ks)) \o walk_preorder(t, Tail(ks))

RECURSIVE visit(_, _), walk(_, _)
\* visit_*(x): walk_*(self, x) first, then the test of x itself.  The result is
\* the order in which the nodes are tested.
visit(t, n) == walk(t, t.nodes[n].kids) \o <<n>>

\* walk_*: visit each child in order.
walk(t, ks) == IF ks = <<>> THEN <<>> ELSE visit(t, Head(ks)) \o walk(t, Tail(ks))

\* krate.visit(&mut v): the items of the crate's module, in order.
walk_crate(t) == walk(t, t.items)

(* ------------------------------------------------------------------ *)
(* The source map                                                       *)
(* ------------------------------------------------------------------ *)

\* The file the crate starts in, of two lines: line 1 is bytes 0..1, line 2
\* is byte 2.  Offsets from 3 on belong to files included later.
FileMaps == [f \in {"main.rs"} |-> [lines |-> <<0, 2>>, end_pos |-> 3]]

Files == {"main.rs", "gone.rs"}

\* FileMap::line_bounds(line_index), line_index counted from 0.
line_bounds(fm, i) == IF i = Len(fm.lines) - 1 THEN <<fm.lines[i + 1], fm.end_pos>> ELSE <<fm.lines[i + 1], fm.lines[i + 2]>>

(* ------------------------------------------------------------------ *)
(* State                                                                *)
(* ------------------------------------------------------------------ *)

\* Option values are sequences: <<>> is None, <<x>> is Some(x).
None == <<>>

Some(x) == <<x>>

NodeInfo(id, span) == [id |-> id, span |-> span]

\* step remembers how the walk got here: the rule that last wrote the slot
\* ("general", "module", "arg", "root"), the node (and parameter) it wrote
\* it for, the node whose callback ran last and the number of iterations
\* of its parameter loop that have run.
NoStep == [rule |-> "none", by |-> 0, byArg |-> 0, last |-> 0, lastArg |-> 0, writes |-> 0]

Init ==
    /\ krate \in Crates
    /\ pc = "idle"
    /\ kind = "Any"
    /\ target = Sp(0, 0)
    /\ node_info = None
    /\ todo = <<>>
    /\ argi = 0
    /\ req = None
    /\ outcome = "none"
    /\ traversals = 0
    /\ step = NoStep
    /\ incl = None

(* ------------------------------------------------------------------ *)
(* pick_node and pick_node_at_loc                                       *)
(* ------------------------------------------------------------------ *)

\* pick_node, lines 209-214: build the visitor and start the walk.
StartWalk(k, pos) ==
    /\ kind' = k
    /\ target' = [lo |-> pos, hi |-> pos, ctxt |-> EmptyCtxt]
    /\ node_info' = None
    /\ todo' = walk_crate(krate)
    /\ pc' = "walk"
    /\ traversals' = traversals + 1
    /\ UNCHANGED <<krate, argi, step, incl>>

\* pick_node(krate, kind, pos) called directly.
PickNode(k, pos) ==
    /\ pc = "idle"
    /\ StartWalk(k, pos)
    /\ UNCHANGED <<req, outcome>>

Panic(what) ==
    /\ pc' = "panic"
    /\ outcome' = what
    /\ UNCHANGED <<krate, kind, target, node_info, todo, argi, traversals, step, incl>>

\* line == 0 || line as usize - 1 >= fm.lines.borrow().len()
line_out_of_range(line, n) == line = 0 \/ line - 1 >= n

\* A mutant of col_out_of_range: the column just past the line is accepted.
col_out_of_range_late(col, line_len) == col > line_len

\* col >= line_len
col_out_of_range(col, line_len) == col >= line_len

\* pick_node_at_loc(krate, cx, kind, file, line, col).
PickNodeAtLoc(k, file, line, col) ==
    /\ pc = "idle"
    /\ req' = Some([file |-> file, line |-> line, col |-> col])
    /\ IF file \notin DOMAIN FileMaps
       THEN Panic("UnknownFile")
       ELSE LET fm == FileMaps[file] IN
            IF line_out_of_range(line, Len(fm.lines))
            THEN Panic("LineOutOfRange")
            ELSE LET b == line_bounds(fm, line - 1)
                     line_len == b[2] - b[1] IN
                 IF col_out_of_range(col, line_len)
                 THEN Panic("ColumnOutOfRange")
                 ELSE StartWalk(k, b[1] + col) /\ UNCHANGED outcome

(* ------------------------------------------------------------------ *)
(* PickVisitor                                                          *)
(* ------------------------------------------------------------------ *)

\* A mutant of matches: the test forgets that the slot must be empty.
matches_unguarded(cat, x, info) == includes(kind, cat) /\ contains(x.span, target)

\* The test every visit_* makes after walking the children of x.
matches(cat, x, info) == info = None /\ includes(kind, cat) /\ contains(x.span, target)

\* A mutant of mod_matches: the module is marked only if the filter takes items.
mod_matches_item_only(x, info) == info = None /\ includes(kind, "Item") /\ x.inner # <<>> /\ contains(x.inner[1], target)

\* visit_item, lines 38-44: the slot is empty, x is a module and its inner
\* span contains the target.
mod_matches(x, info) == info = None /\ x.inner # <<>> /\ contains(x.inner[1], target)

\* visit_fn, lines 117-120: the test of one parameter.
arg_matches(ty, pat) ==
    \/ contains(ty.span, target)
    \/ contains(pat.span, target)
    \/ (ty.span.ctxt = pat.span.ctxt /\ contains(between(ty.span, pat.span), target))

\* visit_fn, lines 121-124: what is recorded for a parameter.
arg_info(t, a) == NodeInfo(a.id, to(t.nodes[a.ty].span, t.nodes[a.pat].span))

\* The record of a callback on node n (iteration la of its parameter loop):
\* wrote says whether it assigned the slot, under which rule, for which
\* parameter.
Stepped(wrote, rule, n, a, la) ==
    step' = [rule    |-> IF wrote THEN rule ELSE step.rule,
             by      |-> IF wrote THEN n ELSE step.by,
             byArg   |-> IF wrote THEN a ELSE step.byArg,
             last    |-> n,
             lastArg |-> la,
             writes  |-> IF wrote THEN step.writes + 1 ELSE step.writes]

\* visit_trait_item, visit_impl_item, visit_foreign_item, visit_stmt,
\* visit_expr, visit_pat, visit_ty: the children were walked; test the node.
VisitNode(cat) ==
    /\ pc = "walk"
    /\ todo # <<>>
    /\ LET n == Head(todo)
           x == krate.nodes[n]
           m == matches(cat, x, node_info) IN
       /\ x.cat = cat
       /\ node_info' = IF m THEN Some(NodeInfo(x.id, x.span)) ELSE node_info
       /\ Stepped(m, "general", n, 0, 0)
    /\ todo' = Tail(todo)
    /\ UNCHANGED <<krate, pc, kind, target, argi, req, outcome, traversals, incl>>

\* visit_item: the general test, then the special case for modules.
VisitItem ==
    /\ pc = "walk"
    /\ todo # <<>>
    /\ LET n == Head(todo)
           x == krate.nodes[n]
           m == matches("Item", x, node_info)
           info1 == IF m THEN Some(NodeInfo(x.id, x.span)) ELSE node_info
           mm == mod_matches(x, info1) IN
       /\ x.cat = "Item"
       /\ node_info' = IF mm THEN Some(NodeInfo(x.id, x.span)) ELSE info1
       /\ Stepped(m \/ mm, IF m THEN "general" ELSE "module", n, 0, 0)
    /\ todo' = Tail(todo)
    /\ UNCHANGED <<krate, pc, kind, target, argi, req, outcome, traversals, incl>>

VisitTraitItem == VisitNode("TraitItem")

VisitImplItem == VisitNode("ImplItem")

VisitForeignItem == VisitNode("ForeignItem")

VisitStmt == VisitNode("Stmt")

VisitExpr == VisitNode("Expr")

VisitPat == VisitNode("Pat")

VisitTy == VisitNode("Ty")

\* visit_fn, lines 112-116: the declaration and body were walked; the guard of
\* the parameter loop is evaluated, once.
VisitFn ==
    /\ pc = "walk"
    /\ todo # <<>>
    /\ LET n == Head(todo)
           x == krate.nodes[n] IN
       /\ x.cat = "Fn"
       /\ Stepped(FALSE, "none", n, 0, 0)
       /\ IF node_info = None /\ includes(kind, "Arg") /\ x.args # <<>>
          THEN pc' = "args" /\ argi' = 1 /\ todo' = todo
          ELSE pc' = "walk" /\ argi' = 0 /\ todo' = Tail(todo)
    /\ UNCHANGED <<krate, kind, target, node_info, req, outcome, traversals, incl>>

\* visit_fn, lines 116-126: one iteration of `for arg in &fd.inputs`.
VisitFnArg ==
    /\ pc = "args"
    /\ LET n == Head(todo)
           x == krate.nodes[n]
           a == x.args[argi]
           m == arg_matches(krate.nodes[a.ty], krate.nodes[a.pat]) IN
       /\ node_info' = IF m THEN Some(arg_info(krate, a)) ELSE node_info
       /\ Stepped(m, "arg", n, argi, argi)
       /\ IF argi = Len(x.args)
          THEN pc' = "walk" /\ argi' = 0 /\ todo' = Tail(todo)
          ELSE pc' = "args" /\ argi' = argi + 1 /\ todo' = todo
    /\ UNCHANGED <<krate, kind, target, req, outcome, traversals, incl>>

\* A mutant of root_matches: the crate is marked wherever the target is.
root_matches_anywhere(info) == info = None

\* pick_node, lines 217-218: nothing was found and the target lies in the
\* crate's module.
root_matches(info) == info = None /\ contains(krate.inner, target)

\* pick_node, lines 216-223: the walk is over; mark the crate itself.
RootFallback ==
    /\ pc = "walk"
    /\ todo = <<>>
    /\ LET m == root_matches(node_info) IN
       /\ node_info' = IF m THEN Some(NodeInfo(CRATE_NODE_ID, krate.span)) ELSE node_info
       /\ step' = [step EXCEPT !.rule = IF m THEN "root" ELSE @,
                               !.by = IF m THEN 0 ELSE @,
                               !.byArg = IF m THEN 0 ELSE @,
                               !.last = 0,
                               !.lastArg = 0,
                               !.writes = IF m THEN @ + 1 ELSE @]
    /\ pc' = "done"
    /\ UNCHANGED <<krate, kind, target, todo, argi, req, outcome, traversals, incl>>

\* The offsets pick_node is called with: those of the spans and one beyond.
Targets == 0 .. MaxPos + 1

\* The line numbers a request names: 0, the file's lines and one beyond.
Lines == 0 .. Len(FileMaps["main.rs"].lines) + 1

Next ==
    \/ \E k \in NodeKinds, pos \in Targets : PickNode(k, pos)
    \/ \E k \in NodeKinds, file \in Files, line \in Lines, col \in 0 .. MaxCol : PickNodeAtLoc(k, file, line, col)
    \/ VisitItem
    \/ VisitTraitItem
    \/ VisitImplItem
    \/ VisitForeignItem
    \/ VisitStmt
    \/ VisitExpr
    \/ VisitPat
    \/ VisitTy
    \/ VisitFn
    \/ VisitFnArg
    \/ RootFallback

Spec == Init /\ [][Next]_vars

(* ------------------------------------------------------------------ *)
(* NodeKind::includes on its own                                        *)
(* ------------------------------------------------------------------ *)

InitIncludes ==
    /\ krate = MiscTree(Sp(0, 1))
    /\ pc = "includes"
    /\ kind \in NodeKinds
    /\ target = Sp(0, 0)
    /\ node_info = None
    /\ todo = <<>>
    /\ argi = 0
    /\ req = None
    /\ outcome = "none"
    /\ traversals = 0
    /\ step = NoStep
    /\ incl = None

\* kind.includes(other), for any of the eleven values of other.
ApplyIncludes(other) ==
    /\ pc = "includes"
    /\ incl' = Some([filter |-> kind, other |-> other, result |-> includes(kind, other)])
    /\ UNCHANGED <<krate, pc, kind, target, node_info, todo, argi, req, outcome, traversals, step>>

NextIncludes == \E other \in NodeKinds : ApplyIncludes(other)

SpecIncludes == InitIncludes /\ [][NextIncludes]_vars

(* ------------------------------------------------------------------ *)
(* Vocabulary of the properties                                         *)
(* ------------------------------------------------------------------ *)

NodeIds == 1 .. Len(krate.nodes)

\* The order in which the walk tests the nodes of the crate.
Order == walk_crate(krate)

Place(n) == LET ord == Order IN CHOOSE i \in 1 .. Len(ord) : ord[i] = n

\* The nodes tested before n.
Before(n) == {m \in NodeIds : Place(m) < Place(n)}

RECURSIVE Descendants(_, _)
Descendants(t, n) == UNION {{t.nodes[n].kids[i]} \cup Descendants(t, t.nodes[n].kids[i]) : i \in 1 .. Len(t.nodes[n].kids)}

IsMod(n) == krate.nodes[n].inner # <<>>

IsFn(n) == krate.nodes[n].cat = "Fn"

InfoOf(n) == NodeInfo(krate.nodes[n].id, krate.nodes[n].span)

\* Node n has a category the filter includes and a span that passes the
\* containment test against the target.
NodeHit(n) == ~IsFn(n) /\ includes(kind, krate.nodes[n].cat) /\ contains(krate.nodes[n].span, target)

\* Module n has an inner span that passes the containment test.
InnerHit(n) == IsMod(n) /\ contains(krate.nodes[n].inner[1], target)

\* Parameter i of function n passes the test of the parameter loop.
ArgHit(n, i) == LET a == krate.nodes[n].args[i] IN arg_matches(krate.nodes[a.ty], krate.nodes[a.pat])

\* Parameter i of function n, taken as a node of category Arg whose span is
\* the union of its pattern and type, has an included category and contains
\* the target.
ArgSpanHit(n, i) == includes(kind, "Arg") /\ contains(arg_info(krate, krate.nodes[n].args[i]).span, target)

ArgsOf(n) == 1 .. Len(krate.nodes[n].args)

(* ------------------------------------------------------------------ *)
(* Properties                                                           *)
(* ------------------------------------------------------------------ *)

\* C1. Depth priority: a node recorded by the general rule has no tree
\* descendant whose category the filter includes and whose span contains the
\* target; and when a node and one of its descendants both qualify, the
\* query does not return the ancestor.
DepthPriority ==
    /\ step.rule = "general" => \A d \in Descendants(krate, step.by) : ~NodeHit(d)
    /\ pc = "done" =>
         \A a \in NodeIds :
            (NodeHit(a) /\ \E d \in Descendants(krate, a) : NodeHit(d))
            => node_info # None /\ node_info[1].id # krate.nodes[a].id

\* C1 witness: the query returned a node that lies below another qualifying node.
DepthPriorityWitness ==
    /\ pc = "done"
    /\ step.rule = "general"
    /\ node_info = Some(InfoOf(step.by))
    /\ \E a \in NodeIds : NodeHit(a) /\ step.by \in Descendants(krate, a)

\* No node or parameter tested before m qualifies.
NothingBefore(m) ==
    \A n \in Before(m) :
       /\ ~NodeHit(n)
       /\ \A i \in ArgsOf(n) : ~ArgSpanHit(n, i)

\* C2 as stated. Module fallback: if the target lies in a module item's
\* inner span and no node tested inside that module or earlier qualifies,
\* the query returns that module item's identity and declaration span.
ModuleFallbackAnyModule ==
    pc = "done" =>
      \A m \in NodeIds :
         (InnerHit(m) /\ NothingBefore(m)) => node_info = Some(InfoOf(m))

\* C2 as amended. Module fallback: if the target lies in a module item's
\* inner span, no node tested inside that module or earlier qualifies, and
\* no module item tested earlier has an inner span containing the target,
\* the query returns that module item's identity and declaration span (and so
\* not the root), whatever the filter and the declaration span.
ModuleFallback ==
    pc = "done" =>
      \A m \in NodeIds :
         (InnerHit(m) /\ NothingBefore(m) /\ \A n \in Before(m) : ~InnerHit(n))
         => /\ node_info = Some(InfoOf(m))
            /\ node_info[1].id # CRATE_NODE_ID

\* C2 witness: a module was returned for a filter that excludes Item and a
\* target outside its declaration span.
ModuleFallbackWitness ==
    /\ pc = "done"
    /\ step.rule = "module"
    /\ ~includes(kind, "Item")
    /\ ~contains(krate.nodes[step.by].span, target)
    /\ NothingBefore(step.by)
    /\ node_info = Some(InfoOf(step.by))

\* Nothing in the tree qualifies: no node, no module inner span, no parameter.
NothingMatched ==
    \A n \in NodeIds :
       /\ ~NodeHit(n)
       /\ ~InnerHit(n)
       /\ includes(kind, "Arg") => \A i \in ArgsOf(n) : ~ArgHit(n, i)

\* C3. Root fallback: when nothing in the tree qualified, the query returns
\* the root identity with the crate's span if the target lies in the crate
\* module's inner span, and nothing otherwise; when something qualified, the
\* result is not the root identity.
RootFallbackRule ==
    pc = "done" =>
      IF NothingMatched
      THEN node_info = IF contains(krate.inner, target) THEN Some(NodeInfo(CRATE_NODE_ID, krate.span)) ELSE None
      ELSE node_info # None /\ node_info[1].id # CRATE_NODE_ID

\* C3 witness: the walk ended with the slot empty and the root was returned.
RootFallbackWitness ==
    /\ pc = "done"
    /\ step.rule = "root"
    /\ step.writes = 1
    /\ node_info = Some(NodeInfo(CRATE_NODE_ID, krate.span))

\* Iteration step.lastArg of the parameter loop of function step.last ran last.
IterationRan == pc \in {"walk", "args"} /\ step.lastArg > 0

\* The target lies strictly between the end of span p and the start of span t.
InGap(p, t) == p.hi <= t.lo /\ p.hi < target.lo /\ target.lo < t.lo

\* C4. Parameter gap rule: the loop was entered (the filter includes Arg and
\* the slot was empty after the body was walked) and no earlier parameter
\* matched; for a parameter whose pattern span P ends before its type span T
\* starts and a target in the gap between them, the slot holds the parameter
\* with the union of P and T if their hygiene contexts agree, and does not
\* hold that parameter if they differ.
ParamGapRule ==
    IterationRan =>
      LET x == krate.nodes[step.last]
          a == x.args[step.lastArg]
          P == krate.nodes[a.pat].span
          T == krate.nodes[a.ty].span IN
      (InGap(P, T) /\ \A j \in 1 .. step.lastArg - 1 : ~ArgHit(step.last, j))
      => IF P.ctxt = T.ctxt
         THEN /\ node_info # None
              /\ node_info[1].id = a.id
              /\ node_info[1].span.lo = Min(P.lo, T.lo)
              /\ node_info[1].span.hi = Max(P.hi, T.hi)
         ELSE node_info = None \/ node_info[1].id # a.id

\* The parameters of function n that pass the test of the loop.
ArgHits(n) == {i \in ArgsOf(n) : ArgHit(n, i)}

\* C5. First matching parameter wins: when the parameter loop of a function
\* has finished and some of its parameters matched, the slot holds the first
\* of them in declaration order.
FirstParamWins ==
    (pc = "walk" /\ step.lastArg > 0 /\ ArgHits(step.last) # {})
    => LET first == CHOOSE i \in ArgHits(step.last) : \A j \in ArgHits(step.last) : i <= j IN
       node_info = Some(arg_info(krate, krate.nodes[step.last].args[first]))

\* The item-like nodes whose span contains the target.
ItemLikeHits == {n \in NodeIds : krate.nodes[n].cat \in ItemLikeKinds /\ contains(krate.nodes[n].span, target)}

\* The first, in the order of the walk, of a set of nodes.
FirstOf(S) == CHOOSE n \in S : \A m \in S : Place(n) <= Place(m)

\* The identities of what is a Stmt, Expr, Pat or Ty node, or a parameter.
OtherIds ==
    {krate.nodes[n].id : n \in {m \in NodeIds : krate.nodes[m].cat \in {"Stmt", "Expr", "Pat", "Ty"}}}
    \cup UNION {{krate.nodes[n].args[i].id : i \in ArgsOf(n)} : n \in NodeIds}

\* C6 as stated. Aggregate filter: a query with ItemLike returns the first
\* node, in traversal order, of category Item, TraitItem, ImplItem or
\* ForeignItem whose span contains the target, and never a statement,
\* expression, pattern, type or parameter.
ItemLikeFirstNode ==
    (pc = "done" /\ kind = "ItemLike") =>
      /\ ItemLikeHits # {} => node_info = Some(InfoOf(FirstOf(ItemLikeHits)))
      /\ node_info # None => node_info[1].id \notin OtherIds

\* C6 as amended. Aggregate filter: a query with ItemLike returns the first
\* node, in traversal order, that is of category Item, TraitItem, ImplItem or
\* ForeignItem with a span containing the target, or is a module item whose
\* inner span contains the target (returned with its declaration span); and
\* never a statement, expression, pattern, type or parameter.
ItemLikeFirstNodeOrModule ==
    (pc = "done" /\ kind = "ItemLike") =>
      LET hits == ItemLikeHits \cup {n \in NodeIds : InnerHit(n)} IN
      /\ hits # {} => node_info = Some(InfoOf(FirstOf(hits)))
      /\ node_info # None => node_info[1].id \notin OtherIds

\* C6 witness: an ItemLike query returned a trait, impl or foreign item
\* although later item-like nodes contain the target too.
ItemLikeWitness ==
    /\ pc = "done"
    /\ kind = "ItemLike"
    /\ step.rule = "general"
    /\ krate.nodes[step.by].cat \in {"TraitItem", "ImplItem", "ForeignItem"}
    /\ Cardinality(ItemLikeHits) > 1
    /\ node_info = Some(InfoOf(step.by))

\* C7. Category inclusion: Any includes every value; ItemLike includes
\* exactly Item, TraitItem, ImplItem and ForeignItem; every other filter
\* includes exactly itself.
IncludesTable ==
    incl # None =>
      LET f == incl[1].filter
          x == incl[1].other
          r == incl[1].result IN
      /\ r \in BOOLEAN
      /\ f = "Any" => r
      /\ f = "ItemLike" => (r <=> x \in {"Item", "TraitItem", "ImplItem", "ForeignItem"})
      /\ f \notin {"Any", "ItemLike"} => (r <=> x = f)

\* C7 witness: ItemLike was asked about ForeignItem and said yes.
IncludesWitness ==
    /\ incl # None
    /\ incl[1].filter = "ItemLike"
    /\ incl[1].other = "ForeignItem"
    /\ incl[1].result

\* The request failed with condition w before any walk began.
Failed(w) == pc = "panic" /\ outcome = w /\ traversals = 0 /\ node_info = None /\ todo = <<>>

\* C8. Position translation: a request for an unknown file, for line 0 or a
\* line beyond the file's last, or for a column at or beyond the line's
\* length fails with the matching condition and starts no walk; any other
\* request starts exactly one walk at line start + column, which lies in the
\* line.
PositionTranslation ==
    req # None =>
      LET r == req[1] IN
      IF r.file \notin DOMAIN FileMaps
      THEN Failed("UnknownFile")
      ELSE LET fm == FileMaps[r.file]
               n == Len(fm.lines) IN
           IF r.line = 0 \/ r.line > n
           THEN Failed("LineOutOfRange")
           ELSE LET lo == fm.lines[r.line]
                    hi == IF r.line = n THEN fm.end_pos ELSE fm.lines[r.line + 1] IN
                IF r.col >= hi - lo
                THEN Failed("ColumnOutOfRange")
                ELSE /\ pc \in {"walk", "args", "done"}
                     /\ outcome = "none"
                     /\ traversals = 1
                     /\ target.lo = lo + r.col
                     /\ target.hi = target.lo
                     /\ lo <= target.lo /\ target.lo < hi

\* C8 witness: a request for the last column of line 1 was translated and
\* its walk ran to the end.
PositionTranslationWitness ==
    /\ req = Some([file |-> "main.rs", line |-> 1, col |-> 1])
    /\ pc = "done"
    /\ target.lo = 1

\* C9. Write-once slot: once the slot holds a value, no step changes it.
WriteOnce == [][node_info # None => node_info' = node_info]_vars

\* C10. Half-open containment: whatever selected the result (a node's span,
\* a module's inner span, the crate's inner span), the target p satisfies
\* start <= p < end for that span; a target at the span's end selects nothing.
HalfOpenContainment ==
    node_info # None =>
      LET p == target.lo
          In(sp) == sp.lo <= p /\ p < sp.hi IN
      /\ step.rule = "general" => In(node_info[1].span)
      /\ step.rule = "module" => In(krate.nodes[step.by].inner[1])
      /\ step.rule = "root" => In(krate.inner)

====
